---- MODULE Spec2Model ----
(***************************************************************************)
(* async-pipe-demo: a component whose template binds the stream returned   *)
(* by DataService.getData() -- interval(2000).pipe(map(i => ({id: i + 1,   *)
(* name: `Item ${i + 1}`}))) -- to the view with                           *)
(*     <div *ngIf="data$ | async as data"> {{data.id}} {{data.name}}       *)
(* The model covers the timer behind interval(), the map projection, the   *)
(* AsyncPipe instance of the template (its _obj, _subscription and         *)
(* _latestValue fields), the *ngIf block of the view and the component's   *)
(* lifecycle (construction, change detection, destruction).                *)
(* Time is counted in milliseconds and advances in steps of half a period. *)
(***************************************************************************)
EXTENDS FiniteSets, Integers, Sequences, TLC

\* interval(2000): the period of the timer, in milliseconds.
Period == 2000

\* The granularity of the clock: half a period.
TimeStep == Period \div 2

\* The clock advances at most MaxElapse times.
MaxElapse == 22

\* ngOnDestroy is called at most MaxDestroyCalls times on the pipe.
MaxDestroyCalls == 2

\* At most MaxPasses change detection passes run apart from the timer's turns.
MaxPasses == 3

\* The null of the AsyncPipe's fields.
Null == [null |-> TRUE]

\* The observable the component holds in data$ (the result of getData()).
Observable == [observable |-> "data$"]

\* No *ngIf block in the DOM.
NoBlock == [block |-> FALSE]

VARIABLES
    now,          \* the clock, in ms
    alive,        \* the component (the consuming context) exists
    obj,          \* AsyncPipe._obj: the observable subscribed to, or Null
    subscription, \* AsyncPipe._subscription: [timer |-> index into timers], or Null
    latestValue,  \* AsyncPipe._latestValue: the latest record, or Null
    timers,       \* one timer per subscribe() of the interval observable
    dom,          \* the *ngIf block of the view: NoBlock or the two texts
    emitted,      \* the records the stream has delivered, in order
    disposed,     \* how many times a subscription has been unsubscribed
    destroyCalls, \* how many times ngOnDestroy has run
    destroyedAt,  \* the clock at the first ngOnDestroy, -1 before it
    passes,       \* change detection passes run apart from the timer's turns
    error         \* the error raised so far, "none" if none

vars == <<now, alive, obj, subscription, latestValue, timers, dom, emitted,
          disposed, destroyCalls, destroyedAt, passes, error>>

----------------------------------------------------------------------------
(* DataService.getData                                                     *)

Digits == <<"0", "1", "2", "3", "4", "5", "6", "7", "8", "9">>

\* The decimal text of a non-negative integer, as `${i + 1}` formats it.
RECURSIVE NumberToString(_)
NumberToString(n) ==
    IF n < 10 THEN Digits[n + 1]
    ELSE NumberToString(n \div 10) \o Digits[(n % 10) + 1]

\* A projection that forgets the + 1: ids and names count from 0.
projectZeroBased(i) == [id |-> i, name |-> "Item " \o NumberToString(i)]

\* map((i) => ({ id: i + 1, name: `Item ${i + 1}` }))
project(i) == [id |-> i + 1, name |-> "Item " \o NumberToString(i + 1)]

\* A timer that fires at once on subscription, as timer(0, 2000) would.
intervalSubscribeImmediate(t) ==
    [n |-> 0, start |-> t, due |-> t, closed |-> FALSE]

\* interval(2000) subscribed at time t: a timer whose counter starts at 0 and
\* whose first callback is due one period after the subscription.
intervalSubscribe(t) ==
    [n |-> 0, start |-> t, due |-> t + Period, closed |-> FALSE]

\* A timer that unsubscribing does not stop.
timerDueIgnoringClosed(t) == t.due <= now

\* The timer's callback is due and the timer has not been cleared.
timerDue(t) == ~t.closed /\ t.due <= now

\* Subscription.unsubscribe(): clears the timer; a cleared timer stays cleared.
unsubscribe(ts, i) == [ts EXCEPT ![i].closed = TRUE]

----------------------------------------------------------------------------
(* The template: *ngIf="data$ | async as data"                             *)

\* A template without the *ngIf guard: the block is there for null too.
renderViewUnguarded(value) ==
    IF value = Null THEN [id |-> "", name |-> ""]
    ELSE [id |-> NumberToString(value.id), name |-> value.name]

\* The *ngIf block for the value the pipe returns: removed when the value is
\* null, otherwise the two interpolations {{ data.id }} and {{ data.name }}.
renderView(value) ==
    IF value = Null THEN NoBlock
    ELSE [id |-> NumberToString(value.id), name |-> value.name]

\* A pipe that subscribes on every call of transform.
transformAlwaysSubscribes == TRUE

\* AsyncPipe.transform(data$) subscribes on its first call only.
transformSubscribes == obj = Null

\* A pipe that keeps the first value it received.
updateLatestValueKeepsFirst(async, value) ==
    IF async = obj /\ latestValue = Null THEN value ELSE latestValue

\* AsyncPipe._updateLatestValue(async, value): the value is taken only when
\* it comes from the observable the pipe is subscribed to.
updateLatestValue(async, value) ==
    IF async = obj THEN value ELSE latestValue

\* A pipe that never unsubscribes.
ngOnDestroyLeaks(p) == p

\* A pipe that unsubscribes but keeps the value it held.
ngOnDestroyKeepsValue(p) ==
    IF p.subscription # Null
    THEN [obj |-> Null, subscription |-> Null, latestValue |-> p.latestValue,
          timers |-> [p.timers EXCEPT ![p.subscription.timer].closed = TRUE],
          disposed |-> p.disposed + 1, error |-> p.error]
    ELSE p

\* A pipe whose ngOnDestroy disposes without testing _subscription: the
\* second call unsubscribes null.
ngOnDestroyUnguarded(p) ==
    IF p.subscription # Null
    THEN [obj |-> Null, subscription |-> Null, latestValue |-> Null,
          timers |-> [p.timers EXCEPT ![p.subscription.timer].closed = TRUE],
          disposed |-> p.disposed + 1, error |-> p.error]
    ELSE [p EXCEPT !.disposed = @ + 1, !.error = "TypeError"]

\* AsyncPipe.ngOnDestroy() applied to the pipe's fields and the timers:
\* if there is a subscription, _dispose() unsubscribes and nulls the fields.
ngOnDestroy(p) ==
    IF p.subscription # Null
    THEN [obj |-> Null, subscription |-> Null, latestValue |-> Null,
          timers |-> unsubscribe(p.timers, p.subscription.timer),
          disposed |-> p.disposed + 1, error |-> p.error]
    ELSE p

\* The pipe's fields and the timers, as ngOnDestroy reads and writes them.
pipeState ==
    [obj |-> obj, subscription |-> subscription, latestValue |-> latestValue,
     timers |-> timers, disposed |-> disposed, error |-> error]

----------------------------------------------------------------------------
Init ==
    /\ now = 0
    /\ alive = TRUE
    /\ obj = Null
    /\ subscription = Null
    /\ latestValue = Null
    /\ timers = <<>>
    /\ dom = NoBlock
    /\ emitted = <<>>
    /\ disposed = 0
    /\ destroyCalls = 0
    /\ destroyedAt = -1
    /\ passes = 0
    /\ error = "none"

\* Time passes. A callback that is due runs before the clock moves on.
Elapse ==
    /\ now < MaxElapse * TimeStep
    /\ \A i \in 1..Len(timers) : ~timerDue(timers[i])
    /\ now' = now + TimeStep
    /\ UNCHANGED <<alive, obj, subscription, latestValue, timers, dom,
                   emitted, disposed, destroyCalls, destroyedAt, passes,
                   error>>

\* A change detection pass whose template hands the pipe a new observable
\* each time: transform disposes the old subscription and subscribes again.
ChangeDetectionResubscribes ==
    /\ alive
    /\ passes < MaxPasses
    /\ passes' = passes + 1
    /\ LET p == ngOnDestroy(pipeState)
       IN /\ timers' = Append(p.timers, intervalSubscribe(now))
          /\ disposed' = p.disposed
    /\ obj' = Observable
    /\ subscription' = [timer |-> Len(timers) + 1]
    /\ latestValue' = Null
    /\ dom' = NoBlock
    /\ UNCHANGED <<now, alive, emitted, destroyCalls, destroyedAt, error>>

\* A change detection pass that takes the next value out of the source, as
\* reading an iterator would: the timer's counter moves with every render.
ChangeDetectionPulls ==
    /\ alive
    /\ passes < MaxPasses
    /\ passes' = passes + 1
    /\ IF transformSubscribes
       THEN /\ obj' = Observable
            /\ timers' = Append(timers, intervalSubscribe(now))
            /\ subscription' = [timer |-> Len(timers) + 1]
       ELSE /\ timers' = [timers EXCEPT ![subscription.timer].n = @ + 1]
            /\ UNCHANGED <<obj, subscription>>
    /\ dom' = renderView(latestValue)
    /\ UNCHANGED <<now, alive, latestValue, emitted, disposed, destroyCalls,
                   destroyedAt, error>>

\* A change detection pass over the component's view: the template calls
\* transform(data$), which subscribes on the first call and returns
\* _latestValue, and *ngIf renders the block for the value returned.
ChangeDetection ==
    /\ alive
    /\ passes < MaxPasses
    /\ passes' = passes + 1
    /\ IF transformSubscribes
       THEN /\ obj' = Observable
            /\ timers' = Append(timers, intervalSubscribe(now))
            /\ subscription' = [timer |-> Len(timers) + 1]
       ELSE UNCHANGED <<obj, timers, subscription>>
    /\ dom' = renderView(latestValue)
    /\ UNCHANGED <<now, alive, latestValue, emitted, disposed, destroyCalls,
                   destroyedAt, error>>

\* A timer callback that runs outside the change detection zone: the pipe
\* stores the record, and the view waits for a later pass.
TimerCallbackNoRender(i) ==
    /\ timerDue(timers[i])
    /\ LET value == project(timers[i].n)
       IN /\ timers' = [timers EXCEPT ![i].n = @ + 1, ![i].due = @ + Period]
          /\ emitted' = Append(emitted, value)
          /\ latestValue' = updateLatestValue(Observable, value)
    /\ UNCHANGED <<now, alive, obj, subscription, dom, disposed, destroyCalls,
                   destroyedAt, passes, error>>

\* A timer that fires once and is then cleared, as timer(2000) would.
TimerCallbackOneShot(i) ==
    /\ timerDue(timers[i])
    /\ LET value == project(timers[i].n)
           latest == updateLatestValue(Observable, value)
       IN /\ timers' = [timers EXCEPT ![i].n = @ + 1, ![i].closed = TRUE]
          /\ emitted' = Append(emitted, value)
          /\ latestValue' = latest
          /\ dom' = IF alive THEN renderView(latest) ELSE dom
    /\ UNCHANGED <<now, alive, obj, subscription, disposed, destroyCalls,
                   destroyedAt, passes, error>>

\* The callback of timer i runs: the counter is projected to a record and
\* delivered to the pipe, which stores it and marks the view; the change
\* detection that ends the turn renders the block.
TimerCallback(i) ==
    /\ timerDue(timers[i])
    /\ LET value == project(timers[i].n)
           latest == updateLatestValue(Observable, value)
       IN /\ timers' = [timers EXCEPT ![i].n = @ + 1, ![i].due = @ + Period]
          /\ emitted' = Append(emitted, value)
          /\ latestValue' = latest
          /\ dom' = IF alive THEN renderView(latest) ELSE dom
    /\ UNCHANGED <<now, alive, obj, subscription, disposed, destroyCalls,
                   destroyedAt, passes, error>>

\* The component is destroyed (or ngOnDestroy is called again): the view
\* leaves the DOM and the pipe's ngOnDestroy runs.
Destroy ==
    /\ destroyCalls < MaxDestroyCalls
    /\ LET p == ngOnDestroy(pipeState)
       IN /\ obj' = p.obj
          /\ subscription' = p.subscription
          /\ latestValue' = p.latestValue
          /\ timers' = p.timers
          /\ disposed' = p.disposed
          /\ error' = p.error
    /\ alive' = FALSE
    /\ dom' = NoBlock
    /\ destroyCalls' = destroyCalls + 1
    /\ destroyedAt' = IF destroyCalls = 0 THEN now ELSE destroyedAt
    /\ UNCHANGED <<now, emitted, passes>>

Next ==
    \/ Elapse
    \/ ChangeDetection
    \/ \E i \in 1..Len(timers) : TimerCallback(i)
    \/ Destroy

Spec == Init /\ [][Next]_vars

\* The timer is fair: time passes, and a callback that is due is dispatched.
LiveSpec ==
    /\ Spec
    /\ WF_vars(Elapse)
    /\ WF_vars(\E i \in 1..Len(timers) : TimerCallback(i))

----------------------------------------------------------------------------
(* Properties                                                              *)

\* The record the stream is expected to deliver k-th (k >= 1), written with
\* the decimal text TLC gives the number.
ExpectedRecord(k) == [id |-> k, name |-> "Item " \o ToString(k)]

\* C1: every attach is paired with exactly one effective detach. While the
\* component lives nothing has been released; once it has ended, every
\* subscription made has been released, each once, whether or not a record
\* was produced before, and no timer is left active.
C1_AttachPairedWithDetach ==
    /\ disposed <= Len(timers)
    /\ alive => disposed = 0
    /\ ~alive => /\ disposed = Len(timers)
                 /\ subscription = Null
                 /\ \A i \in 1..Len(timers) : timers[i].closed

\* The component ended, twice over, after attaching and before any record:
\* one release.
C1_Witness ==
    /\ ~alive
    /\ destroyCalls = 2
    /\ Len(timers) = 1
    /\ emitted = <<>>
    /\ disposed = 1

\* C2: after detach no step delivers a record or changes the binding state,
\* whether or not a tick was pending when the subscription was cancelled.
C2_NoDeliveryAfterDetach ==
    [][~alive => /\ latestValue' = latestValue
                 /\ emitted' = emitted]_vars

\* The subscription was cancelled while a tick was due and not yet
\* dispatched, and time has passed since.
C2_Witness ==
    /\ ~alive
    /\ Len(timers) = 1
    /\ timers[1].closed
    /\ timers[1].due <= destroyedAt
    /\ now > destroyedAt

\* C3: after k >= 1 records and before detach the pipe holds the k-th record,
\* {id: k, name: "Item " + k}: one record, the latest.
C3_HoldsLatestRecord ==
    (alive /\ Len(emitted) >= 1) => latestValue = ExpectedRecord(Len(emitted))

\* Eleven records have arrived and the pipe holds the eleventh.
C3_Witness ==
    /\ alive
    /\ Len(emitted) = 11
    /\ latestValue = [id |-> 11, name |-> "Item 11"]

\* C4: the binding is empty until the first record arrives, and empty once
\* the component has been destroyed, whatever it held before.
C4_EmptyBeforeFirstAndAfterDetach ==
    /\ emitted = <<>> => latestValue = Null
    /\ ~alive => latestValue = Null

\* Destroyed after two records had arrived: the binding is empty.
C4_Witness ==
    /\ ~alive
    /\ Len(emitted) = 2
    /\ Len(timers) = 1
    /\ latestValue = Null

\* C5: the n-th record delivered (n >= 0) is {id: n+1, name: "Item " + (n+1)},
\* and the timer's counter is the number of records delivered: ticks start at
\* 0 and go up by one, with no id skipped, repeated or out of order.
C5_NthRecord ==
    /\ \A k \in 1..Len(emitted) : emitted[k] = ExpectedRecord(k)
    /\ \A i \in 1..Len(timers) : timers[i].n = Len(emitted)

\* Eleven records delivered, the last with a two-digit id.
C5_Witness ==
    /\ Len(emitted) = 11
    /\ emitted[11].name = "Item 11"

\* C6: ngOnDestroy is idempotent. In every reachable state applying it twice
\* gives what applying it once gives; a repeated call changes nothing of the
\* binding, the subscription or the timers; and no error is raised.
C6_DetachIdempotent ==
    /\ [](ngOnDestroy(ngOnDestroy(pipeState)) = ngOnDestroy(pipeState))
    /\ [](error = "none")
    /\ [][(destroyCalls >= 1 /\ destroyCalls' > destroyCalls) =>
            UNCHANGED <<alive, obj, subscription, latestValue, timers, dom,
                        emitted, disposed, error>>]_vars

\* ngOnDestroy has run twice on a pipe that had subscribed and received a
\* record.
C6_Witness ==
    /\ destroyCalls = 2
    /\ Len(timers) = 1
    /\ emitted # <<>>

\* C7: measured from the subscription, the binding is empty before 2000 ms
\* (none is delivered at the start), holds {1, "Item 1"} once the callback
\* due at 2000 ms has run, {2, "Item 2"} once the one due at 4000 ms has
\* run; and after detaching no callback is due however far the clock
\* advances, and no step changes the binding or the view.
C7_Scenario ==
    /\ [](\A i \in 1..Len(timers) :
            LET t == timers[i]
                e == now - t.start
            IN /\ (~t.closed /\ e < Period) => latestValue = Null
               /\ (~t.closed /\ e = Period /\ ~timerDue(t)) =>
                      latestValue = [id |-> 1, name |-> "Item 1"]
               /\ (~t.closed /\ e = 2 * Period /\ ~timerDue(t)) =>
                      latestValue = [id |-> 2, name |-> "Item 2"]
               /\ ~alive => ~timerDue(t))
    /\ [][~alive => UNCHANGED <<latestValue, dom, emitted>>]_vars

\* Detached 5000 ms after the subscription, with two records delivered, and
\* the clock has advanced past the next two periods.
C7_Witness ==
    /\ ~alive
    /\ Len(timers) = 1
    /\ destroyedAt = timers[1].start + 5000
    /\ now >= destroyedAt + 2 * Period
    /\ Len(emitted) = 2

\* C8: the detail block is in the view exactly while the binding holds a
\* record, and shows that record's id and name; while the binding is empty
\* there is no block, and rendering raises no error.
C8_BlockIffHolding ==
    /\ (dom = NoBlock) <=> (latestValue = Null)
    /\ latestValue # Null =>
           dom = [id |-> ToString(latestValue.id), name |-> latestValue.name]
    /\ error = "none"

\* The block shows the third record.
C8_Witness ==
    /\ latestValue # Null
    /\ dom = [id |-> "3", name |-> "Item 3"]

\* C10 as stated: the binding state changes only in a step that receives a
\* new record (the sequence of this program never terminates).
C10_Original ==
    [][latestValue' # latestValue =>
          /\ Len(emitted') = Len(emitted) + 1
          /\ latestValue' = emitted'[Len(emitted')]]_vars

\* C10, amended: the binding state changes only in a step that receives a
\* new record, to that record, or in the step that destroys the component,
\* to empty; so a held record gives way to empty only when the subscription
\* is cancelled, never while records keep arriving.
C10_ChangesOnlyOnRecordOrDetach ==
    [][latestValue' # latestValue =>
          \/ /\ Len(emitted') = Len(emitted) + 1
             /\ latestValue' = emitted'[Len(emitted')]
          \/ /\ alive /\ ~alive'
             /\ latestValue' = Null
             /\ \A i \in 1..Len(timers') : timers'[i].closed]_vars

\* Three records were received one after the other, and the component was
\* then destroyed once: the binding went from the third record to empty.
C10_Witness ==
    /\ ~alive
    /\ destroyCalls = 1
    /\ Len(emitted) = 3
    /\ latestValue = Null

\* C11: the binding update and the re-render happen in the timer callback's
\* turn. At every turn boundary the view is the rendering of the binding
\* state, and the step that stores record k is the step that shows it.
C11_ViewFollowsBindingInSameTurn ==
    /\ [](dom = IF latestValue = Null THEN NoBlock
                ELSE [id |-> ToString(latestValue.id),
                      name |-> "Item " \o ToString(latestValue.id)])
    /\ [][latestValue' # latestValue => dom' # dom]_vars

\* The view went from the first record to the second in the callback's turn,
\* with no change detection pass besides the one that subscribed.
C11_Witness ==
    /\ alive
    /\ passes = 1
    /\ Len(emitted) = 2
    /\ latestValue = [id |-> 2, name |-> "Item 2"]
    /\ dom = [id |-> "2", name |-> "Item 2"]

ActiveSubscriptions ==
    Cardinality({i \in 1..Len(timers) : ~timers[i].closed})

RecordsWithin(s) == (MaxElapse * TimeStep - s) \div Period

\* C15: the source never stops on its own. A timer is cleared only by the
\* destruction of the component; and under a fair timer, once subscribed,
\* the binding comes to hold {id: k, name: "Item " + k} for every k >= 1 the
\* clock leaves time for, one after the other, unless the component ends.
C15_EveryRecordEventuallyHeld ==
    /\ [](\A i \in 1..Len(timers) : timers[i].closed => ~alive)
    /\ \A k \in 1..RecordsWithin(0) :
          (Len(timers) = 1 /\ k <= RecordsWithin(timers[1].start)
             /\ Len(emitted) < k)
            ~> (~alive \/ latestValue = ExpectedRecord(k))

\* The component never ended and the binding holds the eleventh record.
C15_Witness ==
    /\ alive
    /\ destroyCalls = 0
    /\ now = MaxElapse * TimeStep
    /\ latestValue = [id |-> 11, name |-> "Item 11"]

====
